---- MODULE Spec2Model ----
(***************************************************************************)
(* PyChamber: the measurement collection NetworkModel                      *)
(* (src/pychamber/network_model.py), a subclass of scikit-rf's NetworkSet  *)
(* that stores one Network per positioner pose and answers axis queries.   *)
(*                                                                         *)
(* Objects live on a heap: heap[o] is the ntwk_set list of NetworkModel    *)
(* object o.  `model` is the reference the scan session holds; every       *)
(* append allocates a new object and the call site rebinds `model` to it.  *)
(* `last` is the most recent call (operation, arguments, outcome).         *)
(* `appended` is a history variable: the arguments of the appends so far.  *)
(* `captured` is the reference the UI-update path holds.                   *)
(*                                                                         *)
(* The GUI (src/pychamber/ui): `window` holds the widgets of a MainWindow  *)
(* that the enable/disable and progress operations act on, `plot` is one   *)
(* plot widget (MplRectWidget or MplPolarWidget), and `event` is the most  *)
(* recent GUI call (operation, arguments, error, returned value).          *)
(***************************************************************************)
EXTENDS Integers, Sequences, FiniteSets, TLC

VARIABLES heap, model, last, appended, captured, window, plot, event

vars == <<heap, model, last, appended, captured, window, plot, event>>

\* the measurement session and the GUI
session == <<heap, model, last, appended, captured>>

gui == <<window, plot, event>>

-----------------------------------------------------------------------------
(* Bounds and input domains *)

\* number of append calls explored in one scan session
MaxAppends == 3

\* positioner angles (degrees); 0 is the reference cut
Angles == {0, 10}

\* frequency grids an analyzer sweep can be taken on (ascending points)
Grids == {<<1>>, <<1, 2>>}

\* frequency labels a plot can ask for; 2 is not a point of the grid <<1>>
FreqLabels == {1, 2}

\* an optional argument is the empty set (None) or a singleton
None == {}

Some(v) == {v}

Value(o) == CHOOSE v \in o : TRUE

Opt(S) == {None} \cup {Some(v) : v \in S}

\* a complex response sample is the value (-1)^neg * 10^exp10.
\* The antenna under test has a fixed pattern: its response at a pose and
\* frequency point; `drift` decades are lost when a sweep is repeated.
Pattern(az, el, fpoint, drift) ==
    [exp10 |-> 0 - ((az + 2 * el) \div 10) - (fpoint - 1) - drift,
     neg |-> (az # 0)]

\* the Network captured at pose (az, el) on grid g: params, grid f, response s
Sweep(az, el, g, drift) ==
    [azimuth |-> az, elevation |-> el, f |-> g,
     s |-> [i \in 1..Len(g) |-> Pattern(az, el, g[i], drift)]]

\* the sweeps of the antenna, and a drifted repeat at the reference pose
Networks ==
    {Sweep(az, el, g, 0) : az \in Angles, el \in Angles, g \in Grids}
        \cup {Sweep(0, 0, g, 1) : g \in Grids}

\* the sweeps a session can produce next: all records of one session are
\* taken on the grid of the first one
Measurements(ntwks) ==
    IF ntwks = <<>> THEN Networks
    ELSE {n \in Networks : n.f = ntwks[1].f}

-----------------------------------------------------------------------------
(* Library operations of scikit-rf used by NetworkModel *)

\* Python truthiness of an optional number: None and 0 are falsy
Truthy(o) == o # None /\ o # Some(0)

\* NetworkSet.sel(indexers): no indexers gives a copy of the whole set,
\* otherwise the networks whose params equal every indexer, in stored order
sel(ntwks, indexers) ==
    IF DOMAIN indexers = {} THEN ntwks
    ELSE SelectSeq(ntwks,
                   LAMBDA n : \A p \in DOMAIN indexers : n[p] = indexers[p])

Abs(x) == IF x < 0 THEN -x ELSE x

\* index of the grid point nearest to freq (first one on a tie)
NearestIndex(f, freq) ==
    CHOOSE i \in 1..Len(f) :
        \A j \in 1..Len(f) :
            \/ Abs(f[i] - freq) < Abs(f[j] - freq)
            \/ Abs(f[i] - freq) = Abs(f[j] - freq) /\ i <= j

\* Network.__getitem__(freq): the one-point sub-network at freq
getitem(n, freq) ==
    LET i == NearestIndex(n.f, freq)
    IN  [n EXCEPT !.f = <<n.f[i]>>, !.s = <<n.s[i]>>]

\* Network.s_db: 20*log10(|s|) per frequency point; the phase is dropped
s_db(n) == [i \in 1..Len(n.s) |-> 20 * n.s[i].exp10]

\* ndarray.reshape(-1, 1): a column, one single-entry row per value
reshape(x) == [i \in 1..Len(x) |-> <<x[i]>>]

\* outcome of a call: a returned array, or a raised exception
Return(v) == [err |-> "none", val |-> v]

Raise(e) == [err |-> e, val |-> <<>>]

-----------------------------------------------------------------------------
(* NetworkModel *)

\* variant: the grid is read from the most recent record
freqs_last(self) ==
    IF Len(self) = 0 THEN Return(<<>>)
    ELSE Return(self[Len(self)].f)

freqs(self) ==
    IF Len(self) = 0 THEN Return(<<>>)
    ELSE Return(self[1].f)

\* variant: the reference-cut filter is missing, every record is taken
azimuths_unfiltered(self) ==
    IF Len(self) = 0 THEN Return(<<>>)
    ELSE LET hits == sel(self, <<>>)
         IN  Return(reshape([i \in 1..Len(hits) |-> hits[i].azimuth]))

\* variant: the filter value 0 goes through the truthiness test mags uses,
\* so the params dict stays empty
azimuths_truthy(self) ==
    IF Len(self) = 0 THEN Return(<<>>)
    ELSE LET hits == sel(self, [p \in {q \in {"elevation"} : Truthy(Some(0))} |-> 0])
         IN  Return(reshape([i \in 1..Len(hits) |-> hits[i].azimuth]))

azimuths(self) ==
    IF Len(self) = 0 THEN Return(<<>>)
    ELSE LET hits == sel(self, [p \in {"elevation"} |-> 0])
         IN  Return(reshape([i \in 1..Len(hits) |-> hits[i].azimuth]))

\* variant: copied from azimuths with the filter key left unchanged
elevations_copied(self) ==
    IF Len(self) = 0 THEN Return(<<>>)
    ELSE LET hits == sel(self, [p \in {"elevation"} |-> 0])
         IN  Return(reshape([i \in 1..Len(hits) |-> hits[i].elevation]))

elevations(self) ==
    IF Len(self) = 0 THEN Return(<<>>)
    ELSE LET hits == sel(self, [p \in {"azimuth"} |-> 0])
         IN  Return(reshape([i \in 1..Len(hits) |-> hits[i].elevation]))

Arg(p, azimuth, elevation) == IF p = "azimuth" THEN azimuth ELSE elevation

\* variant: elevation is only looked at when azimuth gave no key (elif)
mags_params_elif(azimuth, elevation) ==
    IF Truthy(azimuth) THEN [p \in {"azimuth"} |-> Value(azimuth)]
    ELSE [p \in {q \in {"elevation"} : Truthy(elevation)} |-> Value(elevation)]

\* variant: arguments are tested with "is not None", so 0 is a filter value
mags_params_not_none(azimuth, elevation) ==
    [p \in {q \in {"azimuth", "elevation"} : Arg(q, azimuth, elevation) # None}
        |-> Value(Arg(p, azimuth, elevation))]

\* the params dict mags builds: a key for every truthy angle argument
mags_params(azimuth, elevation) ==
    [p \in {q \in {"azimuth", "elevation"} : Truthy(Arg(q, azimuth, elevation))}
        |-> Value(Arg(p, azimuth, elevation))]

\* variant: the empty-collection test is missing
mags_unguarded(self, freq, azimuth, elevation) ==
    LET hits == sel(self, mags_params(azimuth, elevation))
    IN  IF Truthy(freq)
        THEN Return([i \in 1..Len(hits) |-> s_db(getitem(hits[i], Value(freq)))])
        ELSE IF Len(hits) = 0 THEN Raise("IndexError")
             ELSE Return(reshape(s_db(hits[1])))

\* variant: the first grid point is taken whatever freq asks for
mags_first_point(self, freq, azimuth, elevation) ==
    IF Len(self) = 0 THEN Return(<<>>)
    ELSE LET hits == sel(self, mags_params(azimuth, elevation))
         IN  IF Truthy(freq)
             THEN Return([i \in 1..Len(hits) |-> s_db(getitem(hits[i], hits[i].f[1]))])
             ELSE IF Len(hits) = 0 THEN Raise("IndexError")
                  ELSE Return(reshape(s_db(hits[1])))

\* variant: without freq the last matching record is taken
mags_last_match(self, freq, azimuth, elevation) ==
    IF Len(self) = 0 THEN Return(<<>>)
    ELSE LET hits == sel(self, mags_params(azimuth, elevation))
         IN  IF Truthy(freq)
             THEN Return([i \in 1..Len(hits) |-> s_db(getitem(hits[i], Value(freq)))])
             ELSE IF Len(hits) = 0 THEN Raise("IndexError")
                  ELSE Return(reshape(s_db(hits[Len(hits)])))

\* variant: a frequency that is no point of a record's grid is an error
mags_strict(self, freq, azimuth, elevation) ==
    IF Len(self) = 0 THEN Return(<<>>)
    ELSE LET hits == sel(self, mags_params(azimuth, elevation))
         IN  IF Truthy(freq)
             THEN IF \E i \in 1..Len(hits) :
                        \A j \in 1..Len(hits[i].f) : hits[i].f[j] # Value(freq)
                  THEN Raise("KeyError")
                  ELSE Return([i \in 1..Len(hits) |-> s_db(getitem(hits[i], Value(freq)))])
             ELSE IF Len(hits) = 0 THEN Raise("IndexError")
                  ELSE Return(reshape(s_db(hits[1])))

\* variant: an angular cut that matches no record plots as an empty array
mags_empty_cut(self, freq, azimuth, elevation) ==
    IF Len(self) = 0 THEN Return(<<>>)
    ELSE LET hits == sel(self, mags_params(azimuth, elevation))
         IN  IF Truthy(freq)
             THEN Return([i \in 1..Len(hits) |-> s_db(getitem(hits[i], Value(freq)))])
             ELSE IF Len(hits) = 0 THEN Return(<<>>)
                  ELSE Return(reshape(s_db(hits[1])))

mags(self, freq, azimuth, elevation) ==
    IF Len(self) = 0 THEN Return(<<>>)
    ELSE LET hits == sel(self, mags_params(azimuth, elevation))
         IN  IF Truthy(freq)
             THEN Return([i \in 1..Len(hits) |-> s_db(getitem(hits[i], Value(freq)))])
             ELSE IF Len(hits) = 0 THEN Raise("IndexError")
                  ELSE Return(reshape(s_db(hits[1])))

\* variant: temp aliases the receiver's own list instead of copying it
append_inplace(h, self, ntwk) ==
    LET temp == h[self]
    IN  [Append(h, Append(temp, ntwk)) EXCEPT ![self] = Append(temp, ntwk)]

\* variant: the new record is put in front of the copied ones
append_front(h, self, ntwk) ==
    LET temp == sel(h[self], <<>>)
    IN  Append(h, <<ntwk>> \o temp)

\* variant: a stored record at the pose of ntwk is dropped (overwrite by key)
append_overwrite(h, self, ntwk) ==
    LET temp == SelectSeq(sel(h[self], <<>>),
                          LAMBDA n : ~(n.azimuth = ntwk.azimuth /\ n.elevation = ntwk.elevation))
    IN  Append(h, Append(temp, ntwk))

\* append: the heap after the call; the new object is the last one
append(h, self, ntwk) ==
    LET temp == sel(h[self], <<>>)
    IN  Append(h, Append(temp, ntwk))

-----------------------------------------------------------------------------
(* MainWindow (src/pychamber/ui/main_window.py) *)

\* values a scan reports as progress (percent)
Percents == {0, 50, 100}

\* a progress bar as Qt constructs it: no value set (Qt reports -1)
QProgressBar == [value |-> -1, format |-> "%p%"]

\* a MainWindow after __init__: setupUi has not created the widgets yet
NoWindow ==
    [built |-> FALSE, bound |-> FALSE,
     analyzerFreqGroupBox |-> FALSE, jogGroupBox |-> FALSE,
     experimentGroupBox |-> FALSE,
     experimentTotalProgressBar |-> QProgressBar,
     experimentCutProgressBar |-> QProgressBar]

total_progress(w) == w.experimentTotalProgressBar.value

total_progress_set(w, val) ==
    [w EXCEPT !.experimentTotalProgressBar =
        [value |-> val, format |-> IF val = 100 THEN "Done!" ELSE "%p%"]]

\* variant: the getter reads the cut progress bar
cut_progress_of_cut_bar(w) == w.experimentCutProgressBar.value

cut_progress(w) == w.experimentTotalProgressBar.value

cut_progress_set(w, val) ==
    [w EXCEPT !.experimentCutProgressBar.value = val]

enable_jog(w) == [w EXCEPT !.jogGroupBox = TRUE]

disable_jog(w) == [w EXCEPT !.jogGroupBox = FALSE]

enable_freq(w) == [w EXCEPT !.analyzerFreqGroupBox = TRUE]

disable_freq(w) == [w EXCEPT !.analyzerFreqGroupBox = FALSE]

\* variant: the experiment box is enabled without looking at the others
enable_experiment_unguarded(w) == [w EXCEPT !.experimentGroupBox = TRUE]

enable_experiment(w) ==
    IF w.analyzerFreqGroupBox /\ w.jogGroupBox
    THEN [w EXCEPT !.experimentGroupBox = TRUE]
    ELSE w

disable_experiment(w) == [w EXCEPT !.experimentGroupBox = FALSE]

setupAnalyzerGroupBox(w) == [w EXCEPT !.analyzerFreqGroupBox = FALSE]

setupPositionerGroupBox(w) == [w EXCEPT !.jogGroupBox = FALSE]

setupExperimentGroupBox(w) ==
    [w EXCEPT !.experimentGroupBox = FALSE,
              !.experimentTotalProgressBar = QProgressBar,
              !.experimentCutProgressBar = QProgressBar]

\* the parameters of MplPolarWidget.update_plot after self; none has a
\* default
update_plot_params == <<"xdata", "ydata">>

\* Python's argument binding: npos positional arguments and the keyword
\* arguments kw fill every parameter exactly once
Binds(params, npos, kw) ==
    /\ npos <= Len(params)
    /\ \A k \in kw : \E i \in (npos + 1)..Len(params) : params[i] = k
    /\ \A i \in (npos + 1)..Len(params) : params[i] \in kw

\* update_plot(thetas, np.array(rs), redraw=True) on the extent plot
update_az_extent_plot ==
    IF Binds(update_plot_params, 2, {"redraw"}) THEN "none" ELSE "TypeError"

update_el_extent_plot ==
    IF Binds(update_plot_params, 2, {"redraw"}) THEN "none" ELSE "TypeError"

\* the error initPlots ends in: the first one its calls raise
initPlots ==
    IF update_az_extent_plot # "none" THEN update_az_extent_plot
    ELSE update_el_extent_plot

\* the widgets are created, then initPlots runs, and the convenience
\* methods are bound only if it returns
setupUi(w) ==
    LET made == [setupExperimentGroupBox(setupPositionerGroupBox(
                     setupAnalyzerGroupBox(w))) EXCEPT !.built = TRUE]
    IN  [window |-> IF initPlots = "none" THEN [made EXCEPT !.bound = TRUE]
                    ELSE made,
         err |-> initPlots]

-----------------------------------------------------------------------------
(* Plot widgets (src/pychamber/ui/mplwidget.py) *)
(* One record stands for a widget of either class: min, max and step are   *)
(* ymin, ymax, ystep of an MplRectWidget and rmin, rmax, rstep of an       *)
(* MplPolarWidget, in whole dB; the plotted samples are in half dB, so     *)
(* that floor and ceil of a sample are not the sample itself.  A method    *)
(* gives the widget it leaves and the error it ends in.                    *)

\* number of points of a plotted curve
MaxPoints == 2

\* y samples a curve is made of, in half dB: -1.5, 0 and 0.5
Samples == {-3, 0, 1}

\* the curves update_plot can be given
Curves == UNION {[1..n -> Samples] : n \in 1..MaxPoints}

\* the x values a curve of n points is plotted over
XAxes(n) == {[i \in 1..n |-> k * i] : k \in {1, 2}}

\* values the scale setters are called with; the step 0 is one of them
ScaleMins == {-30, 0}

ScaleMaxs == {0, 10}

ScaleSteps == {0, 10}

\* no plot widget constructed yet
NoPlot ==
    [cls |-> "none", xdata |-> <<>>, ydata |-> <<>>,
     min |-> 0, max |-> 0, step |-> 0]

\* np.amin, np.amax of a non-empty array
amin(y) == CHOOSE v \in {y[i] : i \in 1..Len(y)} : \A i \in 1..Len(y) : v <= y[i]

amax(y) == CHOOSE v \in {y[i] : i \in 1..Len(y)} : \A i \in 1..Len(y) : v >= y[i]

\* np.floor, np.ceil of a sample given in half dB, in whole dB
floor(h) == h \div 2

ceil(h) == -((-h) \div 2)

\* np.round(d / 4) for d >= 0: to the nearest integer, a half to the even
\* one
round_quarter(d) ==
    LET q == d \div 4
        r == d % 4
    IN  IF r < 2 THEN q
        ELSE IF r > 2 THEN q + 1
        ELSE IF q % 2 = 0 THEN q ELSE q + 1

\* the error np.arange(start, stop, step) ends in: a zero step has no
\* length
arange(start, stop, step) == IF step = 0 THEN "ArangeError" ELSE "none"

\* a new MplRectWidget: plots ([0], [0]) with the default scale
MplRectWidget ==
    [cls |-> "MplRectWidget", xdata |-> <<0>>, ydata |-> <<0>>,
     min |-> -30, max |-> 0, step |-> 10]

\* re-plots the given data, then computes the ticks from the scale
MplRectWidget_update_plot(self, xdata, ydata) ==
    [plot |-> [self EXCEPT !.xdata = xdata, !.ydata = ydata],
     err |-> arange(self.min, self.max + 1, self.step)]

MplRectWidget_refresh_plot(self) ==
    LET x == self.xdata
        y == self.ydata
    IN  MplRectWidget_update_plot(self, x, y)

MplRectWidget_set_scale_min(self, min) ==
    MplRectWidget_refresh_plot([self EXCEPT !.min = min])

MplRectWidget_set_scale_max(self, max) ==
    MplRectWidget_refresh_plot([self EXCEPT !.max = max])

MplRectWidget_set_scale_step(self, step) ==
    MplRectWidget_refresh_plot([self EXCEPT !.step = step])

MplRectWidget_set_scale(self, min, max, step) ==
    MplRectWidget_refresh_plot([self EXCEPT !.min = min, !.max = max,
                                  !.step = step])

MplRectWidget_auto_scale(self) ==
    LET y == self.ydata
    IN  IF Len(y) <= 1 THEN [plot |-> self, err |-> "none"]
        ELSE LET min == floor(amin(y))
                 max == ceil(amax(y))
                 step == round_quarter(max - min)
             IN  MplRectWidget_set_scale(self, min, max, step)

\* a new MplPolarWidget: plots ([0], [0]) with the default scale
MplPolarWidget ==
    [cls |-> "MplPolarWidget", xdata |-> <<0>>, ydata |-> <<0>>,
     min |-> -30, max |-> 0, step |-> 10]

\* re-plots the given data, then computes the ticks from the scale
MplPolarWidget_update_plot(self, xdata, ydata) ==
    [plot |-> [self EXCEPT !.xdata = xdata, !.ydata = ydata],
     err |-> arange(self.min, self.max + 1, self.step)]

\* variant: the data are read back from the cleared axes
MplPolarWidget_refresh_plot_cleared(self) ==
    MplPolarWidget_update_plot(self, <<>>, <<>>)

MplPolarWidget_refresh_plot(self) ==
    LET x == self.xdata
        y == self.ydata
    IN  MplPolarWidget_update_plot(self, x, y)

MplPolarWidget_set_scale_min(self, min) ==
    MplPolarWidget_refresh_plot([self EXCEPT !.min = min])

MplPolarWidget_set_scale_max(self, max) ==
    MplPolarWidget_refresh_plot([self EXCEPT !.max = max])

MplPolarWidget_set_scale_step(self, step) ==
    MplPolarWidget_refresh_plot([self EXCEPT !.step = step])

MplPolarWidget_set_scale(self, min, max, step) ==
    MplPolarWidget_refresh_plot([self EXCEPT !.min = min, !.max = max,
                                  !.step = IF step = 0 THEN 1 ELSE step])

MplPolarWidget_auto_scale(self) ==
    LET y == self.ydata
    IN  IF Len(y) <= 1 THEN [plot |-> self, err |-> "none"]
        ELSE LET min == floor(amin(y))
                 max == ceil(amax(y))
                 step == round_quarter(max - min)
             IN  MplPolarWidget_set_scale(self, min, max, step)

\* a GUI call: operation, arguments, error raised, value returned
GuiCall(op, args, err, ret) == [op |-> op, args |-> args, err |-> err, ret |-> ret]

-----------------------------------------------------------------------------
(* State machine *)

Call(op, freq, azimuth, elevation, out) ==
    [op |-> op, freq |-> freq, azimuth |-> azimuth, elevation |-> elevation,
     err |-> out.err, val |-> out.val]

Init ==
    /\ heap = << <<>> >>
    /\ model = 1
    /\ last = Call("new", None, None, None, Return(<<>>))
    /\ appended = <<>>
    /\ captured = 1
    /\ window = NoWindow
    /\ plot = NoPlot
    /\ event = GuiCall("new", <<>>, "none", None)

\* scan path: model = model.append(ntwk)
DoAppend ==
    /\ Len(appended) < MaxAppends
    /\ \E ntwk \in Measurements(heap[model]) :
        /\ heap' = append(heap, model, ntwk)
        /\ model' = Len(heap')
        /\ appended' = Append(appended, ntwk)
        /\ last' = Call("append", None, None, None, Return(<<>>))
    /\ UNCHANGED <<captured, gui>>

DoFreqs ==
    /\ last' = Call("freqs", None, None, None, freqs(heap[model]))
    /\ UNCHANGED <<heap, model, appended, captured, gui>>

DoAzimuths ==
    /\ last' = Call("azimuths", None, None, None, azimuths(heap[model]))
    /\ UNCHANGED <<heap, model, appended, captured, gui>>

DoElevations ==
    /\ last' = Call("elevations", None, None, None, elevations(heap[model]))
    /\ UNCHANGED <<heap, model, appended, captured, gui>>

\* variant: the first record is taken out of the list (pop(0)) when read
DoMags_consuming ==
    /\ \E freq \in Opt(FreqLabels), azimuth \in Opt(Angles), elevation \in Opt(Angles) :
        last' = Call("mags", freq, azimuth, elevation,
                     mags(heap[model], freq, azimuth, elevation))
    /\ heap' = [heap EXCEPT ![model] = IF @ = <<>> THEN @ ELSE Tail(@)]
    /\ UNCHANGED <<model, appended, captured, gui>>

DoMags ==
    /\ \E freq \in Opt(FreqLabels), azimuth \in Opt(Angles), elevation \in Opt(Angles) :
        last' = Call("mags", freq, azimuth, elevation,
                     mags(heap[model], freq, azimuth, elevation))
    /\ UNCHANGED <<heap, model, appended, captured, gui>>

Next ==
    \/ DoAppend
    \/ DoFreqs
    \/ DoAzimuths
    \/ DoElevations
    \/ DoMags

Spec == Init /\ [][Next]_vars

\* scan path when the analyzer's frequency setup changes between sweeps:
\* append itself compares no grids, so the sweep may be on any grid
DoAppendAny ==
    /\ Len(appended) < MaxAppends
    /\ \E ntwk \in Networks :
        /\ heap' = append(heap, model, ntwk)
        /\ model' = Len(heap')
        /\ appended' = Append(appended, ntwk)
        /\ last' = Call("append", None, None, None, Return(<<>>))
    /\ UNCHANGED <<captured, gui>>

NextGrid ==
    \/ DoAppendAny
    \/ DoFreqs

\* sessions whose sweeps are not all on one grid, and the freqs query
SpecGrid == Init /\ [][NextGrid]_vars

\* the outcome of query op with the given arguments on the records ntwks
Query(op, freq, azimuth, elevation, ntwks) ==
    IF op = "freqs" THEN freqs(ntwks)
    ELSE IF op = "azimuths" THEN azimuths(ntwks)
    ELSE IF op = "elevations" THEN elevations(ntwks)
    ELSE mags(ntwks, freq, azimuth, elevation)

\* UI-update path: a callback reads the session's current reference
DoCapture ==
    /\ captured' = model
    /\ UNCHANGED <<heap, model, last, appended, gui>>

\* UI-update path: a callback queries the collection it holds, for the
\* axes and for the polar / over-frequency plot data
DoUiQuery ==
    /\ \E op \in {"freqs", "azimuths", "elevations", "mags"},
          freq \in Opt(FreqLabels), elevation \in Opt(Angles) :
        /\ op # "mags" => (freq = None /\ elevation = None)
        /\ last' = Call(op, freq, None, elevation,
                        Query(op, freq, None, elevation, heap[captured]))
    /\ UNCHANGED <<heap, model, appended, captured, gui>>

NextUi ==
    \/ DoAppend
    \/ DoCapture
    \/ DoUiQuery

\* scan-path appends interleaved with UI-path callbacks, each one atomic
SpecUi == Init /\ [][NextUi]_vars

\* a MainWindow operation on the widgets setupUi created
WindowOp(op, args, w, ret) ==
    /\ window.built
    /\ window' = w
    /\ event' = GuiCall(op, args, "none", ret)
    /\ UNCHANGED <<session, plot>>

DoSetupUi ==
    /\ ~window.built
    /\ window' = setupUi(window).window
    /\ event' = GuiCall("setupUi", <<>>, setupUi(window).err, None)
    /\ UNCHANGED <<session, plot>>

DoEnableJog == WindowOp("enable_jog", <<>>, enable_jog(window), None)

DoDisableJog == WindowOp("disable_jog", <<>>, disable_jog(window), None)

DoEnableFreq == WindowOp("enable_freq", <<>>, enable_freq(window), None)

DoDisableFreq == WindowOp("disable_freq", <<>>, disable_freq(window), None)

DoEnableExperiment ==
    WindowOp("enable_experiment", <<>>, enable_experiment(window), None)

DoDisableExperiment ==
    WindowOp("disable_experiment", <<>>, disable_experiment(window), None)

DoGetTotalProgress ==
    WindowOp("total_progress", <<>>, window, Some(total_progress(window)))

DoSetTotalProgress ==
    \E val \in Percents :
        WindowOp("total_progress=", <<val>>, total_progress_set(window, val), None)

DoGetCutProgress ==
    WindowOp("cut_progress", <<>>, window, Some(cut_progress(window)))

DoSetCutProgress ==
    \E val \in Percents :
        WindowOp("cut_progress=", <<val>>, cut_progress_set(window, val), None)

NextWindow ==
    \/ DoSetupUi
    \/ DoEnableJog
    \/ DoDisableJog
    \/ DoEnableFreq
    \/ DoDisableFreq
    \/ DoEnableExperiment
    \/ DoDisableExperiment
    \/ DoGetTotalProgress
    \/ DoSetTotalProgress
    \/ DoGetCutProgress
    \/ DoSetCutProgress

\* the main window: setupUi, then the enable/disable and progress
\* operations in any order
SpecWindow == Init /\ [][NextWindow]_vars

\* a method of the plot widget, resolved by the widget's class
PlotOp(op, args, rect, polar) ==
    /\ plot.cls # "none"
    /\ LET out == IF plot.cls = "MplRectWidget" THEN rect ELSE polar
       IN  /\ plot' = out.plot
           /\ event' = GuiCall(op, args, out.err, None)
    /\ UNCHANGED <<session, window>>

DoNewRect ==
    /\ plot.cls = "none"
    /\ plot' = MplRectWidget
    /\ event' = GuiCall("MplRectWidget", <<>>, "none", None)
    /\ UNCHANGED <<session, window>>

DoNewPolar ==
    /\ plot.cls = "none"
    /\ plot' = MplPolarWidget
    /\ event' = GuiCall("MplPolarWidget", <<>>, "none", None)
    /\ UNCHANGED <<session, window>>

DoUpdatePlot ==
    \E ydata \in Curves : \E xdata \in XAxes(Len(ydata)) :
        PlotOp("update_plot", <<xdata, ydata>>,
               MplRectWidget_update_plot(plot, xdata, ydata),
               MplPolarWidget_update_plot(plot, xdata, ydata))

DoRefreshPlot ==
    PlotOp("refresh_plot", <<>>,
           MplRectWidget_refresh_plot(plot), MplPolarWidget_refresh_plot(plot))

DoAutoScale ==
    PlotOp("auto_scale", <<>>,
           MplRectWidget_auto_scale(plot), MplPolarWidget_auto_scale(plot))

DoSetScaleMin ==
    \E min \in ScaleMins :
        PlotOp("set_scale_min", <<min>>,
               MplRectWidget_set_scale_min(plot, min),
               MplPolarWidget_set_scale_min(plot, min))

DoSetScaleMax ==
    \E max \in ScaleMaxs :
        PlotOp("set_scale_max", <<max>>,
               MplRectWidget_set_scale_max(plot, max),
               MplPolarWidget_set_scale_max(plot, max))

DoSetScaleStep ==
    \E step \in ScaleSteps :
        PlotOp("set_scale_step", <<step>>,
               MplRectWidget_set_scale_step(plot, step),
               MplPolarWidget_set_scale_step(plot, step))

DoSetScale ==
    \E min \in ScaleMins, max \in ScaleMaxs, step \in ScaleSteps :
        PlotOp("set_scale", <<min, max, step>>,
               MplRectWidget_set_scale(plot, min, max, step),
               MplPolarWidget_set_scale(plot, min, max, step))

NextPlot ==
    \/ DoNewRect
    \/ DoNewPolar
    \/ DoUpdatePlot
    \/ DoRefreshPlot
    \/ DoAutoScale
    \/ DoSetScaleMin
    \/ DoSetScaleMax
    \/ DoSetScaleStep
    \/ DoSetScale

\* one plot widget of either class and its methods in any order
SpecPlot == Init /\ [][NextPlot]_vars

-----------------------------------------------------------------------------
(* Properties *)

Queries == {"freqs", "azimuths", "elevations", "mags"}

\* the collection the session holds
Collection == heap[model]

\* C1: append has persistent-value semantics: a step that appends to a
\* collection of N records yields a new collection object holding N+1
\* records, and every collection object that existed before the step
\* (the receiver included) still holds exactly its records, in order.
C1_AppendPersistent ==
    [][/\ \A o \in 1..Len(heap) : o <= Len(heap') /\ heap'[o] = heap[o]
       /\ last'.op = "append" =>
             /\ model' \notin 1..Len(heap)
             /\ Len(heap'[model']) = Len(heap[model]) + 1]_vars

C1_Witness ==
    /\ last.op = "append"
    /\ model = 3
    /\ Len(heap[2]) = 1
    /\ Len(heap[3]) = 2

\* C2: starting empty and rebinding the variable to the result of each
\* append, after n appends the collection holds exactly the n appended
\* records r_1..r_n in append order.
C2_AppendOrder ==
    /\ Len(Collection) = Len(appended)
    /\ \A k \in 1..Len(appended) : Collection[k] = appended[k]

C2_Witness ==
    /\ Len(appended) = 3
    /\ appended[1] # appended[2]
    /\ appended[2] # appended[3]
    /\ Collection = appended

\* C3: every query on an empty collection returns an empty array and
\* raises nothing, whatever frequency / azimuth / elevation it is given.
C3_EmptyQueries ==
    (Collection = <<>> /\ last.op \in Queries) =>
        (last.err = "none" /\ last.val = <<>>)

C3_Witness ==
    /\ Collection = <<>>
    /\ last.op = "mags"
    /\ last.freq = None
    /\ last.azimuth = Some(10)
    /\ last.val = <<>>

\* the values of a column array, one per row
Flat(col) == [i \in 1..Len(col) |-> col[i][1]]

\* the members of a set of indices, in increasing order
RECURSIVE Ascending(_)
Ascending(S) ==
    IF S = {} THEN <<>>
    ELSE LET m == CHOOSE x \in S : \A y \in S : x <= y
         IN  <<m>> \o Ascending(S \ {m})

\* C4: azimuths() on a non-empty collection returns exactly the azimuth
\* fields of the records whose elevation is 0, one entry per such record,
\* in stored order.
C4_AzimuthsOfCut ==
    (last.op = "azimuths" /\ Collection # <<>>) =>
        LET cut == Ascending({k \in 1..Len(Collection) : Collection[k].elevation = 0})
        IN  /\ last.err = "none"
            /\ Len(last.val) = Len(cut)
            /\ \A i \in 1..Len(cut) : last.val[i] = <<Collection[cut[i]].azimuth>>

C4_Witness ==
    /\ last.op = "azimuths"
    /\ Len(Collection) = 3
    /\ Collection[2].elevation # 0
    /\ Flat(last.val) = <<10, 0>>

\* C5: elevations() on a non-empty collection returns exactly the elevation
\* fields of the records whose azimuth is 0, one entry per such record, in
\* stored order.
C5_ElevationsOfCut ==
    (last.op = "elevations" /\ Collection # <<>>) =>
        LET cut == Ascending({k \in 1..Len(Collection) : Collection[k].azimuth = 0})
        IN  /\ last.err = "none"
            /\ Len(last.val) = Len(cut)
            /\ \A i \in 1..Len(cut) : last.val[i] = <<Collection[cut[i]].elevation>>

C5_Witness ==
    /\ last.op = "elevations"
    /\ Len(Collection) = 3
    /\ Collection[2].azimuth # 0
    /\ Flat(last.val) = <<10, 0>>

\* C6: on a non-empty collection in which no record has elevation 0,
\* azimuths() returns an empty axis, however many records it holds.
C6_NoReferenceCut ==
    (/\ last.op = "azimuths"
     /\ Collection # <<>>
     /\ \A k \in 1..Len(Collection) : Collection[k].elevation # 0) =>
        (last.err = "none" /\ Len(last.val) = 0)

C6_Witness ==
    /\ last.op = "azimuths"
    /\ Len(Collection) = 3
    /\ \A k \in 1..3 : Collection[k].elevation = 10
    /\ \E k \in 1..3 : Collection[k].azimuth # Collection[1].azimuth
    /\ last.val = <<>>

\* the angle keys a mags call filters on: an argument that is omitted, or
\* exactly 0, gives no key
Keyed(o) == o \ {0}

\* record n passes the angular filter of mags(azimuth, elevation)
Passes(n, azimuth, elevation) ==
    /\ \A v \in Keyed(azimuth) : n.azimuth = v
    /\ \A v \in Keyed(elevation) : n.elevation = v

\* indices of the records that pass the filter of the last mags call
Matching ==
    Ascending({k \in 1..Len(Collection) :
                  Passes(Collection[k], last.azimuth, last.elevation)})

\* f is a point of the grid g
OnGrid(g, f) == \E i \in 1..Len(g) : g[i] = f

\* 20*log10 of the magnitude of sample x = (-1)^neg * 10^exp10
Db(x) == 20 * x.exp10

\* dB magnitude of record n at the grid point f
DbAt(n, f) == Db(n.s[CHOOSE i \in 1..Len(n.f) : n.f[i] = f])

\* C7: mags with a frequency f that is a point of every record's grid
\* returns exactly K values for an angular filter matching K records (the
\* filter holds the angle arguments that are supplied and not 0), one per
\* matching record in stored order, the i-th being the dB magnitude of the
\* i-th matching record's response at f.
C7_MagsVsAngle ==
    (/\ last.op = "mags"
     /\ last.freq # None
     /\ Collection # <<>>
     /\ \A k \in 1..Len(Collection) : OnGrid(Collection[k].f, Value(last.freq))) =>
        /\ last.err = "none"
        /\ Len(last.val) = Len(Matching)
        /\ \A i \in 1..Len(Matching) :
              last.val[i] = <<DbAt(Collection[Matching[i]], Value(last.freq))>>

C7_Witness ==
    /\ last.op = "mags"
    /\ last.freq = Some(2)
    /\ last.elevation = Some(10)
    /\ Len(Collection) = 3
    /\ Matching = <<1, 3>>
    /\ last.val[1] # last.val[2]

\* C8: mags with the frequency omitted, when some record matches the
\* angular filter, returns the full per-frequency dB vector of the first
\* matching record in stored order, and of that record only; its length is
\* the length of the frequency grid returned by freqs.
C8_MagsVsFrequency ==
    (/\ last.op = "mags"
     /\ last.freq = None
     /\ Collection # <<>>
     /\ Matching # <<>>) =>
        LET first == Collection[Matching[1]]
        IN  /\ last.err = "none"
            /\ Len(last.val) = Len(freqs(Collection).val)
            /\ \A i \in 1..Len(first.s) : last.val[i] = <<Db(first.s[i])>>

C8_Witness ==
    /\ last.op = "mags"
    /\ last.freq = None
    /\ last.azimuth = Some(10)
    /\ Matching = <<2, 3>>
    /\ Collection[2].s # Collection[3].s
    /\ Len(last.val) = 2

\* the partial key of the last query: the values required of each field
\* (empty when the key is absent)
KeyAzimuth ==
    IF last.op = "elevations" THEN {0}
    ELSE IF last.op = "mags" THEN Keyed(last.azimuth)
    ELSE {}

KeyElevation ==
    IF last.op = "azimuths" THEN {0}
    ELSE IF last.op = "mags" THEN Keyed(last.elevation)
    ELSE {}

\* record n equals the partial key on every key present
Contributes(n) ==
    /\ \A v \in KeyAzimuth : n.azimuth = v
    /\ \A v \in KeyElevation : n.elevation = v

Contributors == Ascending({k \in 1..Len(Collection) : Contributes(Collection[k])})

\* what one contributing record adds to the result of the last query
Contribution(n) ==
    IF last.op = "azimuths" THEN <<n.azimuth>>
    ELSE IF last.op = "elevations" THEN <<n.elevation>>
    ELSE s_db(getitem(n, Value(last.freq)))

\* C9: a record contributes to a query result iff it equals the filter on
\* every angle key present (both keys: both must match; no key: every
\* record matches).  azimuths, elevations and mags-with-frequency return
\* one entry per contributing record, in stored order; mags without a
\* frequency returns the vector of a contributing record and fails exactly
\* when there is none.
C9_Selection ==
    (last.op \in {"azimuths", "elevations", "mags"} /\ Collection # <<>>) =>
        IF last.op = "mags" /\ last.freq = None
        THEN /\ (last.err = "none") = (Contributors # <<>>)
             /\ last.err = "none" =>
                   \E i \in 1..Len(Contributors) :
                       last.val = reshape(s_db(Collection[Contributors[i]]))
        ELSE /\ last.err = "none"
             /\ Len(last.val) = Len(Contributors)
             /\ \A i \in 1..Len(Contributors) :
                   last.val[i] = Contribution(Collection[Contributors[i]])
             /\ (KeyAzimuth = {} /\ KeyElevation = {}) =>
                   Len(last.val) = Len(Collection)

C9_Witness ==
    /\ last.op = "mags"
    /\ last.freq = Some(1)
    /\ last.azimuth = Some(10)
    /\ last.elevation = Some(10)
    /\ Len(Collection) = 3
    /\ Collection[1].azimuth = 10 /\ Collection[1].elevation = 0
    /\ Collection[3].azimuth = 0 /\ Collection[3].elevation = 10
    /\ Contributors = <<2>>
    /\ Len(last.val) = 1

\* C10: in mags an angle argument of exactly 0 is the same as an omitted
\* one: mags(f, azimuth=0, elevation=e) equals mags(f, elevation=e) and
\* mags(f, azimuth=a, elevation=0) equals mags(f, azimuth=a).
C10_ZeroIsOmitted ==
    (last.op = "mags" /\ last.freq # None) =>
        LET out == [err |-> last.err, val |-> last.val]
        IN  /\ last.azimuth = Some(0) =>
                  out = mags(Collection, last.freq, None, last.elevation)
            /\ last.elevation = Some(0) =>
                  out = mags(Collection, last.freq, last.azimuth, None)

C10_Witness ==
    /\ last.op = "mags"
    /\ last.freq = Some(1)
    /\ last.azimuth = Some(0)
    /\ last.elevation = None
    /\ Len(Collection) = 3
    /\ \E k \in 1..3 : Collection[k].azimuth = 10
    /\ Len(last.val) = 3

\* no two records of the collection share an (azimuth, elevation) pose
DistinctPoses ==
    \A j, k \in 1..Len(Collection) :
        (/\ Collection[j].azimuth = Collection[k].azimuth
         /\ Collection[j].elevation = Collection[k].elevation) => j = k

\* the full per-frequency dB vector of record n, as a column
DbColumn(n) == [i \in 1..Len(n.s) |-> <<Db(n.s[i])>>]

\* C11: after appending records with pairwise distinct poses, mags with
\* the full key of record i (azimuth = a_i, elevation = e_i, no frequency)
\* returns exactly the data of record i, for every i.
C11_FullKeySelectsRecord ==
    (/\ last.op = "mags"
     /\ last.freq = None
     /\ last.azimuth # None
     /\ last.elevation # None
     /\ DistinctPoses) =>
        \A i \in 1..Len(Collection) :
            (/\ Collection[i].azimuth = Value(last.azimuth)
             /\ Collection[i].elevation = Value(last.elevation)) =>
                (last.err = "none" /\ last.val = DbColumn(Collection[i]))

\* the three records of the scenario, on a two-point grid
Scenario == <<Sweep(0, 0, <<1, 2>>, 0), Sweep(10, 0, <<1, 2>>, 0), Sweep(0, 10, <<1, 2>>, 0)>>

\* C12: after appending (az=0, el=0), (az=10, el=0), (az=0, el=10) in that
\* order to an empty collection, mags(freq = first grid point, elevation=0)
\* returns exactly two values, those of the first and the second record.
C12_ScenarioElevationCut ==
    (/\ Collection = Scenario
     /\ last.op = "mags"
     /\ last.freq = Some(1)
     /\ last.azimuth = None
     /\ last.elevation = Some(0)) =>
        /\ last.err = "none"
        /\ last.val = << <<DbAt(Scenario[1], 1)>>, <<DbAt(Scenario[2], 1)>> >>

\* C13: for every frequency f of the grid, mags(freq=f, elevation=0) has
\* exactly as many entries as azimuths(), the i-th magnitude belonging to
\* the record that supplies the i-th azimuth.
C13_AzimuthCutSeries ==
    (/\ last.op = "mags"
     /\ last.freq # None
     /\ last.azimuth = None
     /\ last.elevation = Some(0)
     /\ Collection # <<>>
     /\ OnGrid(Collection[1].f, Value(last.freq))) =>
        LET cut == Ascending({k \in 1..Len(Collection) : Collection[k].elevation = 0})
        IN  /\ last.err = "none"
            /\ Len(last.val) = Len(azimuths(Collection).val)
            /\ \A i \in 1..Len(cut) :
                  last.val[i] = <<DbAt(Collection[cut[i]], Value(last.freq))>>

\* the entries of array x are pairwise different
NoRepeats(x) == \A i, j \in 1..Len(x) : x[i] = x[j] => i = j

\* C14 (as stated): after any sequence of appends no azimuth value occurs
\* more than once in azimuths(), and no elevation value more than once in
\* elevations().
C14_DistinctAxes ==
    (last.op \in {"azimuths", "elevations"}) => NoRepeats(last.val)

\* C14 (amended): after appends of records at pairwise distinct poses, no
\* azimuth value occurs more than once in azimuths(), and no elevation
\* value more than once in elevations().
C14_DistinctAxesOfDistinctPoses ==
    (last.op \in {"azimuths", "elevations"} /\ DistinctPoses) => NoRepeats(last.val)

C14_Witness ==
    /\ last.op = "azimuths"
    /\ DistinctPoses
    /\ Len(Collection) = 3
    /\ Len(last.val) = 2

SamePose(m, n) == m.azimuth = n.azimuth /\ m.elevation = n.elevation

\* C15: appending a record whose pose equals that of a stored record
\* neither overwrites nor drops the stored one: the result has N+1
\* records, the stored record at its old place and the new one at the end.
C15_DuplicatePoseKept ==
    [][appended' # appended =>
         LET old == heap[model]
             new == heap'[model']
             ntwk == appended'[Len(appended')]
         IN  \A k \in 1..Len(old) :
                 SamePose(old[k], ntwk) =>
                     /\ Len(new) = Len(old) + 1
                     /\ new[k] = old[k]
                     /\ new[Len(new)] = ntwk]_vars

C15_Witness ==
    /\ last.op = "append"
    /\ Len(Collection) = 2
    /\ SamePose(Collection[1], Collection[2])
    /\ Collection[1] # Collection[2]
    /\ Collection[1] = appended[1]
    /\ Collection[2] = appended[2]

\* C16: freqs on a non-empty collection returns the frequency grid of the
\* first stored record, whatever grids the other records have, and an
\* append to a non-empty collection never changes the value it returns.
C16_FreqsOfFirstRecord ==
    [][/\ (last'.op = "freqs" /\ heap'[model'] # <<>>) =>
             (last'.err = "none" /\ last'.val = appended'[1].f)
       /\ heap[model] # <<>> =>
             freqs(heap'[model']) = freqs(heap[model])]_vars

C16_Witness ==
    /\ last.op = "freqs"
    /\ Len(Collection) = 3
    /\ Collection[1].f = <<1>>
    /\ Collection[2].f = <<1, 2>>
    /\ Collection[3].f = <<1, 2>>
    /\ last.val = <<1>>

\* the outcome recorded in a call
Outcome(call) == [err |-> call.err, val |-> call.val]

\* C17: the queries are read-only: a call of freqs, azimuths, elevations
\* or mags, whether it returns or fails, leaves every collection and the
\* session's reference unchanged, so the same query asked again right
\* after it gives the same outcome.
C17_QueriesReadOnly ==
    [][last'.op \in {"freqs", "azimuths", "elevations", "mags"} =>
         /\ heap' = heap
         /\ model' = model
         /\ Outcome(last') = Query(last'.op, last'.freq, last'.azimuth,
                                   last'.elevation, heap'[model'])]_vars

C17_Witness ==
    /\ last.op = "mags"
    /\ last.err = "IndexError"
    /\ Len(Collection) = 3
    /\ Collection = appended

\* C18: with scan-path appends and UI-path callbacks interleaved in any
\* order, every collection object holds a prefix of the append sequence
\* (never a partly built list), a UI query observes exactly the records
\* that had been appended when its reference was taken, and an append
\* leaves the captured reference and its contents as they were.
C18_AtomicCallbacks ==
    [][/\ \A o \in 1..Len(heap') : heap'[o] = SubSeq(appended', 1, o - 1)
       /\ (/\ captured' = captured
           /\ appended' = appended
           /\ last'.op \in {"freqs", "azimuths", "elevations", "mags"}) =>
             Outcome(last') = Query(last'.op, last'.freq, last'.azimuth, last'.elevation,
                                    SubSeq(appended, 1, captured - 1))
       /\ appended' # appended =>
             (captured' = captured /\ heap'[captured] = heap[captured])]_vars

C18_Witness ==
    /\ last.op = "mags"
    /\ last.freq = Some(1)
    /\ last.elevation = None
    /\ captured = 2
    /\ model = 4
    /\ Len(last.val) = 1
    /\ Len(Collection) = 3

\* C20: mags with a frequency that is no point of the records' grid (it
\* lies outside it) raises nothing on a non-empty collection and still
\* returns one value per matching record.
C20_MissingFrequency ==
    (/\ last.op = "mags"
     /\ last.freq # None
     /\ Collection # <<>>
     /\ \A k \in 1..Len(Collection) : ~OnGrid(Collection[k].f, Value(last.freq))) =>
        (last.err = "none" /\ Len(last.val) = Len(Matching))

C20_Witness ==
    /\ last.op = "mags"
    /\ last.freq = Some(2)
    /\ last.azimuth = Some(10)
    /\ Len(Collection) = 3
    /\ Collection[1].f = <<1>>
    /\ Matching = <<1, 3>>
    /\ Len(last.val) = 2

\* C21: on a non-empty collection, a mags call without a frequency whose
\* angular filter matches no stored record ends in an IndexError (element
\* 0 of an empty selection) instead of returning an empty array, and the
\* failed call leaves the collection and the session's reference as they
\* were.
C21_EmptyCutRaises ==
    [][(/\ last'.op = "mags"
        /\ ~Truthy(last'.freq)
        /\ Collection' # <<>>
        /\ Matching' = <<>>) =>
          (/\ last'.err = "IndexError"
           /\ last'.val = <<>>
           /\ heap' = heap
           /\ model' = model)]_vars

C21_Witness ==
    /\ last.op = "mags"
    /\ last.freq = None
    /\ last.azimuth = Some(10)
    /\ last.elevation = Some(10)
    /\ last.err = "IndexError"
    /\ Len(Collection) = 2
    /\ \A k \in 1..2 : Collection[k].azimuth = 0 \/ Collection[k].elevation = 0

\* both boxes the experiment box depends on are enabled
ReadyForExperiment(w) == w.analyzerFreqGroupBox /\ w.jogGroupBox

\* C22: setupUi leaves the experiment group box disabled; afterwards it
\* goes from disabled to enabled only in an enable_experiment call made
\* while the frequency group box and the jog group box are both enabled,
\* and an enable_experiment call made otherwise changes nothing.
C22_ExperimentGate ==
    [][/\ event'.op = "setupUi" => ~window'.experimentGroupBox
       /\ (~window.experimentGroupBox /\ window'.experimentGroupBox) =>
             (event'.op = "enable_experiment" /\ ReadyForExperiment(window))
       /\ (event'.op = "enable_experiment" /\ ~ReadyForExperiment(window)) =>
             window' = window]_vars

C22_Witness ==
    /\ event.op = "enable_experiment"
    /\ window.experimentGroupBox
    /\ ReadyForExperiment(window)

\* C23: in every reachable state of the window, the experiment group box
\* is enabled only if the frequency group box and the jog group box are
\* both enabled.
C23_ExperimentImpliesBoth ==
    window.experimentGroupBox => ReadyForExperiment(window)

\* C24: after auto_scale on a plot of either class that holds at least
\* two points, the stored tick step is not zero and the tick computation
\* that follows raises nothing.
C24_AutoScaleStep ==
    (event.op = "auto_scale" /\ Len(plot.ydata) >= 2) =>
        (plot.step # 0 /\ event.err = "none")

\* C25: setupUi raises nothing: its calls into the plot widgets are
\* accepted, and it ends with update_polar_plot and update_over_freq_plot
\* bound.
C25_SetupUiCompletes ==
    event.op = "setupUi" => (event.err = "none" /\ window.bound)

\* the operations that set the scale or redraw, without being given data
ScaleOps ==
    {"set_scale_min", "set_scale_max", "set_scale_step", "set_scale",
     "refresh_plot", "auto_scale"}

\* C26: scale operations never change what is plotted.  A new widget of
\* either class plots ([0], [0]); update_plot plots the data it is given;
\* set_scale_min, set_scale_max, set_scale_step, set_scale, refresh_plot
\* and auto_scale, whether they return or raise, leave the plotted x and
\* y data as they were; and each single-field setter stores its argument
\* in its own scale field and leaves the other two fields alone.
C26_ScaleKeepsData ==
    [][/\ event'.op \in {"MplRectWidget", "MplPolarWidget"} =>
             (plot'.xdata = <<0>> /\ plot'.ydata = <<0>>)
       /\ event'.op = "update_plot" =>
             (plot'.xdata = event'.args[1] /\ plot'.ydata = event'.args[2])
       /\ event'.op \in ScaleOps =>
             (plot'.xdata = plot.xdata /\ plot'.ydata = plot.ydata)
       /\ event'.op = "set_scale_min" =>
             (/\ plot'.min = event'.args[1]
              /\ plot'.max = plot.max
              /\ plot'.step = plot.step)
       /\ event'.op = "set_scale_max" =>
             (/\ plot'.max = event'.args[1]
              /\ plot'.min = plot.min
              /\ plot'.step = plot.step)
       /\ event'.op = "set_scale_step" =>
             (/\ plot'.step = event'.args[1]
              /\ plot'.min = plot.min
              /\ plot'.max = plot.max)]_vars

C26_Witness ==
    /\ event.op = "set_scale_min"
    /\ event.args = <<0>>
    /\ event.err = "ArangeError"
    /\ plot.cls = "MplPolarWidget"
    /\ plot.ydata = <<-3, 1>>
    /\ plot.xdata = <<2, 4>>
    /\ plot.min = 0
    /\ plot.max = 10
    /\ plot.step = 0

\* C27: reading cut_progress returns the value of the total progress
\* bar, whatever was assigned to cut_progress: a read changes nothing and
\* returns the total bar's value; assigning total_progress sets the total
\* bar to the assigned value and leaves the cut bar alone; assigning
\* cut_progress sets the cut bar and changes nothing else in the window.
C27_CutProgressReadsTotal ==
    [][/\ event'.op = "cut_progress" =>
             (/\ event'.ret = Some(window.experimentTotalProgressBar.value)
              /\ window' = window)
       /\ event'.op = "total_progress=" =>
             (/\ window'.experimentTotalProgressBar.value = event'.args[1]
              /\ window'.experimentCutProgressBar = window.experimentCutProgressBar)
       /\ event'.op = "cut_progress=" =>
             window' = [window EXCEPT
                           !.experimentCutProgressBar.value = event'.args[1]]
       /\ event'.op \notin {"total_progress=", "setupUi"} =>
             window'.experimentTotalProgressBar = window.experimentTotalProgressBar]_vars

C27_Witness ==
    /\ event.op = "cut_progress"
    /\ event.ret = Some(50)
    /\ window.experimentTotalProgressBar.value = 50
    /\ window.experimentCutProgressBar.value = 100

====
